---- MODULE Spec2Model ----
(***************************************************************************)
(* Epic / Plasma FHIR integration client (src/src/utils/epicClient.js):    *)
(* OAuth authorization flow, credential store, token supplier, audit log.  *)
(* Every async function is a task; a task takes one step per await.        *)
(* Time is counted in seconds.                                             *)
(***************************************************************************)
EXTENDS Integers, Sequences, FiniteSets, TLC

VARIABLES
  demoMode,          \* EPIC_CONFIG.demoMode (fixed per build)
  ENCRYPTION_KEY,    \* import.meta.env.ENCRYPTION_KEY (fixed per build)
  parallel,          \* how many awaited calls the pages keep in flight
  clinic,            \* the principals who use the application
  budget,            \* how many calls the pages make
  pure,              \* a call of the cipher or of a parser: arguments, result
  now,               \* Date.now(), in seconds
  sessionStorage,    \* epic_oauth_state / epic_oauth_doctor_email
  epic_tokens,       \* table epic_tokens, keyed on doctor_email
  epic_audit_log,    \* table epic_audit_log, in insertion order
  epic_patient_data, \* table epic_patient_data, keyed on (doctor_email, epic_patient_id)
  tokenCalls,        \* requests sent to EPIC_CONFIG.tokenUrl so far
  tasks,             \* the async calls, running or finished
  ops,               \* calls made so far
  issued,            \* states generated by generateRandomState so far
  lastBegin,         \* history: the last initEpicAuth call and what it returned
  flow               \* history: how far the authorization flow has come

vars == <<demoMode, ENCRYPTION_KEY, parallel, clinic, budget, pure, now,
          sessionStorage, epic_tokens, epic_audit_log, epic_patient_data,
          tokenCalls, tasks, ops, issued, lastBegin, flow>>

cfgVars == <<demoMode, ENCRYPTION_KEY, parallel, clinic, budget, pure>>

----------------------------------------------------------------------------
\* Bounds of the model
MaxNow == 1
MaxOps == 3
MaxCalls == 1
MaxPairCalls == 2
MaxQuery == 3

----------------------------------------------------------------------------
\* Values
NULL == "null"
DemoDoctor == "demo.doctor@amma.health"
Doctor == "dr.lee@clinic.org"
Doctor2 == "dr.kim@clinic.org"
Principals == {Doctor, Doctor2, DemoDoctor}
\* Slot 0 holds the createDemoConnection promise nobody awaits; the others
\* hold the calls the pages await.
DemoSlot == {0}
CallSlots == {1, 2}
TaskIds == DemoSlot \cup CallSlots

NoKey == "nokey"
Keys == {"k1"}
Codes == {"c1", "c2"}
Lifetimes == {1, 2}
ErrorBodies == {"invalid_grant", "invalid_client"}
SecondsPerYear == 365 * 24 * 60 * 60
fhirApiBase == "https://api.plasma.health/fhir/r4"
demoBaseUrl == "https://demo.plasma.health"
SecondsPerDay == 24 * 60 * 60
AuditRetentionDays == 90
DataRetentionDays == 30

\* Patient ids: one of the demo fixtures and one of the upstream server.
DemoPatient == "demo-patient-1"
PlasmaPatient == "plasma-patient-7"
PatientIds == {DemoPatient, PlasmaPatient}
Queries == {<<>>, <<"s", "m", "i", "t", "h">>}

\* The five resource types fetchPatientData asks for, and how a fetch of
\* fhirApiBase can settle: a 200 answer, a non-success status, or a rejected
\* promise.
Categories == {"Patient", "Condition", "MedicationRequest",
               "DocumentReference", "Observation"}
Outcomes == {"ok", "status", "rejected"}
NoFetch == [c \in Categories |-> NULL]
\* How Promise.all over the five fetches can settle: fulfilled, every fetch
\* having got a 200 answer or a non-success status (the latter for the
\* Patient and for one of the other resource types at most); or rejected
\* by the first fetch that is, whatever becomes of the others.
PromiseAll ==
  {f \in [Categories -> Outcomes \ {"rejected"}] :
     \E c \in Categories : \A d \in Categories \ {"Patient", c} : f[d] = "ok"}
  \cup {[c \in Categories |-> IF c = r THEN "rejected" ELSE NULL] : r \in Categories}
Empty == "[]"
NoData == [patient |-> NULL, conditions |-> NULL, medications |-> NULL,
           documents |-> NULL, observations |-> NULL]

\* A secret in the clear: the n-th token of its kind.
Secret(kind, n) == [kind |-> kind, n |-> n]
NoSecret == Secret(NULL, 0)

\* No call of the cipher or of a parser is looked at.
NoCall == [fn |-> "none"]

\* What a TEXT column of epic_tokens holds.
NoBlob == [tag |-> NULL, key |-> NULL, pt |-> NoSecret]
PlainText(text) == [tag |-> "PLAIN", key |-> NULL, pt |-> text]

\* encrypt(text, key): AES-256-GCM under the key, or the tagged base64
\* fallback when no key is configured.
encrypt(text, key) ==
  IF key = NoKey
    THEN [tag |-> "UNENCRYPTED", key |-> NULL, pt |-> text]
    ELSE [tag |-> "AESGCM", key |-> key, pt |-> text]

\* decrypt(blob, key) succeeds on the fallback encoding and on what was
\* sealed under the same key; everything else throws.
decrypts(blob, key) ==
  \/ blob.tag = "UNENCRYPTED"
  \/ key # NoKey /\ blob.tag = "AESGCM" /\ blob.key = key

\* decrypt(blob, key), where it succeeds.
decrypt(blob, key) == IF decrypts(blob, key) THEN blob.pt ELSE NoSecret

\* What becomes of a stored blob in other hands.  The end of an AES-GCM
\* blob cut off, or one of its bytes changed: the authentication tag fits
\* no key any more.  The same done to the tagged fallback, whole base64
\* groups cut off or replaced: atob yields another text.
damaged(blob) ==
  IF blob.tag = "AESGCM"
    THEN [blob EXCEPT !.key = NULL]
    ELSE [blob EXCEPT !.pt = Secret("damaged", blob.pt.n)]

\* The blob replaced by 'UNENCRYPTED:' + btoa(text).
retagged(blob, text) == [tag |-> "UNENCRYPTED", key |-> NULL, pt |-> text]

NoRow == [access_token |-> NoBlob, refresh_token |-> NoBlob,
          expires_at |-> 0, epic_base_url |-> NULL]

\* What a row of epic_patient_data holds of the parsed data, and when it
\* was stored.
NoSnapshot == [patient |-> NULL, documents |-> NULL, conditions |-> NULL,
               medications |-> NULL, last_synced |-> 0]

NoUrl == [response_type |-> NULL, state |-> 0, aud |-> NULL]

NoResponse == [rejected |-> FALSE, ok |-> FALSE, access_token |-> NoSecret,
               refresh_token |-> NoSecret, expires_in |-> 0, body |-> NULL]

\* Outcomes of the n-th fetch(EPIC_CONFIG.tokenUrl): a 200 answer with a
\* fresh access token, a fresh refresh token or none, and a lifetime; a
\* non-success status with an error body; or a rejected promise.
TokenResponses(n) ==
  [rejected : {FALSE}, ok : {TRUE},
   access_token : {Secret("access_token", n)},
   refresh_token : {Secret("refresh_token", n), NoSecret},
   expires_in : Lifetimes, body : {NULL}]
  \cup
  [rejected : {FALSE}, ok : {FALSE}, access_token : {NoSecret},
   refresh_token : {NoSecret}, expires_in : {0}, body : ErrorBodies]
  \cup
  [rejected : {TRUE}, ok : {FALSE}, access_token : {NoSecret},
   refresh_token : {NoSecret}, expires_in : {0}, body : {NULL}]

\* One async call: the function running (op), where it is suspended (pc),
\* its locals (email, state, saved, read, row, resp, at, req) and, as
\* history, what it has done (calls, writes, emitted), how the flow stood
\* when it started (afterFail, afterOk, begunFor) and how it ended (result,
\* token, detail).  A call of searchEpicPatients or fetchPatientData also
\* has the function that awaits getEpicToken (fn), its arguments
\* (epicPatientId, query), whether it took the demo branch (demo), how the
\* five fetches settled (fetched), the parsed data (data) and, as history,
\* the reads of epic_tokens (loads), the requests to fhirApiBase (fhir) and
\* the row it stored (stored).
IdleTask ==
  [op |-> "none", pc |-> "idle", email |-> NULL,
   state |-> 0, saved |-> 0,
   read |-> NoRow, row |-> NoRow, resp |-> NoResponse, at |-> 0, req |-> 0,
   calls |-> 0, writes |-> 0, emitted |-> <<>>,
   afterFail |-> FALSE, afterOk |-> FALSE, begunFor |-> NULL,
   result |-> NULL, token |-> NoSecret, detail |-> NULL,
   fn |-> "none", epicPatientId |-> NULL, query |-> <<>>, demo |-> FALSE,
   fetched |-> NoFetch, data |-> NoData, loads |-> 0, fhir |-> 0,
   stored |-> NoSnapshot, auditFailed |-> FALSE, patients |-> <<>>]

stateMatches_unlessEmpty(state, savedState) ==
  savedState = 0 \/ state = savedState

\* state !== savedState, negated.
stateMatches(state, savedState) == state = savedState

isExpired_early(time, expiresAt) == time + 1 >= expiresAt

isExpired_strict(time, expiresAt) == time > expiresAt

\* now >= expiresAt
isExpired(time, expiresAt) == time >= expiresAt

noRefreshToken_never(encryptedRefreshToken) == FALSE

\* !encryptedRefreshToken
noRefreshToken(encryptedRefreshToken) == encryptedRefreshToken = NoBlob

responseOk_always(resp) == TRUE

\* tokenResponse.ok
responseOk(resp) == resp.ok

exchangeErrorDetail_generic(body) == NULL

\* 'Failed to exchange authorization code: ' + error
exchangeErrorDetail(body) == body

clearedSession_kept == sessionStorage

\* sessionStorage after the two removeItem calls.
clearedSession == [epic_oauth_state |-> 0, epic_oauth_doctor_email |-> NULL]

isDemo(doctorEmail) == demoMode \/ doctorEmail = DemoDoctor

\* A slot is free when no call is running in it; a new call takes the first
\* free one of those it may use.
Running(t) == tasks[t].pc \notin {"idle", "done"}
Free(t) ==
  /\ t \in CallSlots
  /\ t <= parallel
  /\ ~Running(t)
  /\ \A u \in CallSlots : u < t => Running(u)
  /\ ops < budget

\* The calls as the next step finds them: the result of a finished call has
\* gone to its caller.
settled ==
  [t \in TaskIds |-> IF tasks[t].pc = "done" THEN IdleTask ELSE tasks[t]]

Done(task, result) == [task EXCEPT !.pc = "done", !.result = result]

logAuditEvent_replacing(event, inserted) ==
  IF inserted
    THEN <<[event |-> event, timestamp |-> now]>>
    ELSE epic_audit_log

\* logAuditEvent(event): insert into epic_audit_log; a failed insert is
\* caught and only logged to the console.
logAuditEvent(event, inserted) ==
  IF inserted
    THEN Append(epic_audit_log, [event |-> event, timestamp |-> now])
    ELSE epic_audit_log

audited_rethrown(task, inserted) ==
  IF inserted
    THEN task
    ELSE Done([task EXCEPT !.auditFailed = TRUE], "AuditError")

\* await logAuditEvent(...) in a caller: the catch of logAuditEvent keeps the
\* failure of the insert from the caller, which goes on as after an insert.
audited(task, inserted) ==
  [task EXCEPT !.auditFailed = @ \/ ~inserted]

AuditEvent(doctorEmail, action) ==
  [doctor_email |-> doctorEmail, epic_patient_id |-> NULL, action |-> action]

PatientAuditEvent(doctorEmail, epicPatientId, action) ==
  [doctor_email |-> doctorEmail, epic_patient_id |-> epicPatientId,
   action |-> action]


----------------------------------------------------------------------------
\* The rows an earlier session of this build may have left for a principal:
\* none, or what handleEpicCallback stored then.
EarlierRows(key) ==
  {NoRow} \cup
  [access_token  : {encrypt(Secret("access_token", 0), key)},
   refresh_token : {encrypt(Secret("refresh_token", 0), key), NoBlob},
   expires_at    : Lifetimes,
   epic_base_url : {fhirApiBase}]

Init ==
  /\ demoMode \in BOOLEAN
  /\ ENCRYPTION_KEY \in Keys \cup {NoKey}
  /\ parallel = 1
  /\ pure = NoCall
  /\ clinic = {Doctor, DemoDoctor}
  /\ budget = MaxOps
  /\ now = 0
  /\ sessionStorage = [epic_oauth_state |-> 0, epic_oauth_doctor_email |-> NULL]
  /\ epic_tokens \in [Principals -> EarlierRows(ENCRYPTION_KEY)]
  /\ epic_tokens[DemoDoctor] = NoRow
  /\ \A p \in Principals : demoMode \/ p \notin clinic => epic_tokens[p] = NoRow
  /\ epic_audit_log = <<>>
  /\ epic_patient_data = [k \in Principals \X PatientIds |-> NoSnapshot]
  /\ tokenCalls = 0
  /\ tasks = [t \in TaskIds |-> IdleTask]
  /\ ops = 0
  /\ issued = 0
  /\ lastBegin = [email |-> NULL, url |-> NoUrl, oauthEmail |-> NULL]
  /\ flow = "Idle"

Tick ==
  /\ now < MaxNow
  /\ now' = now + 1
  /\ tasks' = settled
  /\ UNCHANGED <<cfgVars, epic_patient_data, sessionStorage, epic_tokens, epic_audit_log,
                 tokenCalls, ops, issued, lastBegin, flow>>

----------------------------------------------------------------------------
\* createDemoConnection(doctorEmail), up to its first await: the row it
\* sends to the upsert.
DemoRow ==
  [access_token  |-> PlainText(Secret("demo-token-", now)),
   refresh_token |-> PlainText(Secret("demo-refresh-", now)),
   expires_at    |-> now + SecondsPerYear,
   epic_base_url |-> demoBaseUrl]

generateRandomState_repeated == IF issued = 0 THEN 1 ELSE issued

\* generateRandomState(): a state that was not generated before.
generateRandomState == issued + 1

\* initEpicAuth(doctorEmail): in demo mode start createDemoConnection without
\* awaiting it and return null; otherwise store a fresh state and the email
\* in sessionStorage and return the authorization URL.
initEpicAuth(doctorEmail) ==
  IF isDemo(doctorEmail)
    THEN \E t \in DemoSlot :
           /\ ~Running(t)
           /\ ops < budget
           /\ tasks' = [settled EXCEPT ![t] =
                          [IdleTask EXCEPT !.op = "createDemoConnection",
                                           !.pc = "upsert",
                                           !.email = doctorEmail,
                                           !.row = DemoRow]]
           /\ lastBegin' = [lastBegin EXCEPT !.email = doctorEmail, !.url = NoUrl]
           /\ UNCHANGED <<sessionStorage, issued, flow>>
    ELSE LET state == generateRandomState IN
           /\ ops < budget
           /\ sessionStorage' = [epic_oauth_state |-> state,
                                 epic_oauth_doctor_email |-> doctorEmail]
           /\ issued' = state
           /\ lastBegin' = [email |-> doctorEmail,
                            url |-> [response_type |-> "code", state |-> state,
                                     aud |-> fhirApiBase],
                            oauthEmail |-> doctorEmail]
           /\ flow' = "AwaitingRedirect"
           /\ tasks' = settled

InitEpicAuth ==
  \E doctorEmail \in clinic :
    /\ initEpicAuth(doctorEmail)
    /\ ops' = ops + 1
    /\ UNCHANGED <<cfgVars, epic_patient_data, now, epic_tokens, epic_audit_log, tokenCalls>>

\* createDemoConnection: the upsert into epic_tokens settles.
createDemoConnection_upsert(t) ==
  /\ tasks[t].op = "createDemoConnection"
  /\ tasks[t].pc = "upsert"
  /\ \E error \in BOOLEAN :
       IF error
         THEN /\ tasks' = [settled EXCEPT ![t] = Done(@, "swallowed")]
              /\ UNCHANGED epic_tokens
         ELSE /\ epic_tokens' = [epic_tokens EXCEPT ![tasks[t].email] = tasks[t].row]
              /\ tasks' = [settled EXCEPT ![t].pc = "audit", ![t].writes = @ + 1]
  /\ UNCHANGED <<cfgVars, epic_patient_data, now, sessionStorage, epic_audit_log, tokenCalls,
                 ops, issued, lastBegin, flow>>

\* createDemoConnection: logAuditEvent settles.
createDemoConnection_audit(t) ==
  /\ tasks[t].op = "createDemoConnection"
  /\ tasks[t].pc = "audit"
  /\ \E inserted \in BOOLEAN :
       /\ epic_audit_log' =
             logAuditEvent(AuditEvent(tasks[t].email, "demo_connection_created"), inserted)
       /\ tasks' = [settled EXCEPT ![t] =
            audited(Done([@ EXCEPT !.emitted = Append(@, "demo_connection_created")], "created"),
                    inserted)]
  /\ UNCHANGED <<cfgVars, epic_patient_data, now, sessionStorage, epic_tokens, tokenCalls,
                 ops, issued, lastBegin, flow>>

----------------------------------------------------------------------------
\* handleEpicCallback(code, state), up to its first await: the CSRF check,
\* the email lookup, and the request to the token endpoint.  Its caller,
\* processCallback, passes on only a code and a state that are present.
handleEpicCallback(t, code, state) ==
  LET savedState == sessionStorage.epic_oauth_state
      doctorEmail == sessionStorage.epic_oauth_doctor_email
      call == [IdleTask EXCEPT !.op = "handleEpicCallback",
                               !.state = state, !.saved = savedState,
                               !.begunFor = lastBegin.oauthEmail,
                               !.afterFail = (flow = "Failed"),
                               !.afterOk = (flow = "Connected")]
  IN
  /\ Free(t)
  /\ IF ~stateMatches(state, savedState)
       THEN /\ tasks' = [settled EXCEPT ![t] = Done(call, "CsrfError")]
            /\ flow' = "Failed"
            /\ UNCHANGED tokenCalls
       ELSE IF doctorEmail = NULL
         THEN /\ tasks' = [settled EXCEPT ![t] = Done(call, "NoEmailError")]
              /\ flow' = "Failed"
              /\ UNCHANGED tokenCalls
         ELSE /\ tokenCalls' = tokenCalls + 1
              /\ tasks' = [settled EXCEPT ![t] =
                             [call EXCEPT !.pc = "exchange",
                                          !.email = doctorEmail,
                                          !.req = tokenCalls + 1,
                                          !.calls = 1]]
              /\ flow' = "AwaitingCallback"
  /\ ops' = ops + 1
  /\ UNCHANGED <<cfgVars, epic_patient_data, now, sessionStorage, epic_tokens, epic_audit_log,
                 issued, lastBegin>>

CallbackRow_relative(resp) ==
  [access_token  |-> encrypt(resp.access_token, ENCRYPTION_KEY),
   refresh_token |-> IF resp.refresh_token # NoSecret
                       THEN encrypt(resp.refresh_token, ENCRYPTION_KEY)
                       ELSE NoBlob,
   expires_at    |-> resp.expires_in,
   epic_base_url |-> fhirApiBase]

\* The row handleEpicCallback builds from the token response.
CallbackRow(resp) ==
  [access_token  |-> encrypt(resp.access_token, ENCRYPTION_KEY),
   refresh_token |-> IF resp.refresh_token # NoSecret
                       THEN encrypt(resp.refresh_token, ENCRYPTION_KEY)
                       ELSE NoBlob,
   expires_at    |-> now + resp.expires_in,
   epic_base_url |-> fhirApiBase]

\* handleEpicCallback: the token endpoint has answered; on a 200 answer the
\* row is built and the upsert into epic_tokens settles.
handleEpicCallback_exchange(t) ==
  /\ tasks[t].op = "handleEpicCallback"
  /\ tasks[t].pc = "exchange"
  /\ \E resp \in TokenResponses(tasks[t].req), dbError \in BOOLEAN :
       IF resp.rejected
         THEN /\ tasks' = [settled EXCEPT ![t] = Done(@, "NetworkError")]
              /\ flow' = "Failed"
              /\ UNCHANGED epic_tokens
         ELSE IF ~responseOk(resp)
           THEN /\ tasks' = [settled EXCEPT ![t] =
                               Done([@ EXCEPT !.detail = exchangeErrorDetail(resp.body),
                                         !.resp = resp],
                                    "TokenExchangeError")]
                /\ flow' = "Failed"
                /\ UNCHANGED epic_tokens
           ELSE IF dbError
             THEN /\ tasks' = [settled EXCEPT ![t] =
                                 Done([@ EXCEPT !.resp = resp, !.at = now,
                                                !.row = CallbackRow(resp)],
                                      "StoreError")]
                  /\ flow' = "Failed"
                  /\ UNCHANGED epic_tokens
             ELSE /\ epic_tokens' = [epic_tokens EXCEPT ![tasks[t].email] =
                                       CallbackRow(resp)]
                  /\ tasks' = [settled EXCEPT ![t] =
                                 [@ EXCEPT !.pc = "audit", !.resp = resp,
                                           !.at = now, !.row = CallbackRow(resp),
                                           !.writes = @ + 1]]
                  /\ UNCHANGED flow
  /\ UNCHANGED <<cfgVars, epic_patient_data, now, sessionStorage, epic_audit_log, tokenCalls,
                 ops, issued, lastBegin>>

\* handleEpicCallback: logAuditEvent settles; then sessionStorage is cleared
\* and { success, doctorEmail } returned.
handleEpicCallback_audit(t) ==
  /\ tasks[t].op = "handleEpicCallback"
  /\ tasks[t].pc = "audit"
  /\ \E inserted \in BOOLEAN :
       /\ epic_audit_log' =
             logAuditEvent(AuditEvent(tasks[t].email, "epic_oauth_connected"), inserted)
       /\ tasks' = [settled EXCEPT ![t] =
            audited(Done([@ EXCEPT !.emitted = Append(@, "epic_oauth_connected")], "success"),
                    inserted)]
  /\ sessionStorage' = clearedSession
  /\ flow' = "Connected"
  /\ UNCHANGED <<cfgVars, epic_patient_data, now, epic_tokens, tokenCalls, ops, issued, lastBegin>>

----------------------------------------------------------------------------
\* getEpicToken returns the token: the call is over, or it goes on in the
\* function that awaited it, which sends its requests to fhirApiBase (one
\* search, or the five fetches of Promise.all) before it awaits again.
returnToken(task, token) ==
  IF task.fn = "none"
    THEN Done([task EXCEPT !.token = token], "token")
    ELSE [task EXCEPT !.op = task.fn, !.pc = "fetch", !.token = token,
                      !.fhir = IF task.fn = "fetchPatientData"
                                 THEN Cardinality(Categories) ELSE 1]

\* getEpicToken(doctorEmail) and, when the token is expired, the start of
\* refreshEpicToken(doctorEmail, data.refresh_token) up to its fetch.
\* Its callers, searchEpicPatients and fetchPatientData, reach it only
\* outside demo mode; frame holds what the caller has in hand.
getEpicTokenIn(t, doctorEmail, frame) ==
  LET call == [frame EXCEPT !.op = "getEpicToken", !.email = doctorEmail,
                            !.at = now, !.loads = 1]
  IN
  /\ Free(t)
  /\ ~isDemo(doctorEmail)
  /\ \E error \in BOOLEAN :
       LET data == IF error THEN NoRow ELSE epic_tokens[doctorEmail]
           reading == [call EXCEPT !.read = data]
       IN
       IF error \/ data = NoRow
         THEN /\ tasks' = [settled EXCEPT ![t] = Done(reading, "NotConnectedError")]
              /\ UNCHANGED tokenCalls
         ELSE IF isExpired(now, data.expires_at)
           THEN IF noRefreshToken(data.refresh_token)
                  THEN /\ tasks' = [settled EXCEPT ![t] =
                                      Done(reading, "NoRefreshTokenError")]
                       /\ UNCHANGED tokenCalls
                  ELSE IF ~decrypts(data.refresh_token, ENCRYPTION_KEY)
                    THEN /\ tasks' = [settled EXCEPT ![t] =
                                        Done(reading, "DecryptionError")]
                         /\ UNCHANGED tokenCalls
                    ELSE /\ tokenCalls' = tokenCalls + 1
                         /\ tasks' = [settled EXCEPT ![t] =
                                        [reading EXCEPT !.pc = "refresh",
                                                        !.req = tokenCalls + 1,
                                                        !.calls = 1]]
           ELSE /\ tasks' = [settled EXCEPT ![t] =
                               IF decrypts(data.access_token, ENCRYPTION_KEY)
                                 THEN returnToken(reading,
                                        decrypt(data.access_token, ENCRYPTION_KEY))
                                 ELSE Done(reading, "DecryptionError")]
                /\ UNCHANGED tokenCalls
  /\ ops' = ops + 1
  /\ UNCHANGED <<cfgVars, epic_patient_data, now, sessionStorage, epic_tokens,
                 epic_audit_log, issued, lastBegin, flow>>

getEpicToken(t, doctorEmail) == getEpicTokenIn(t, doctorEmail, IdleTask)

RefreshRow_dropsRefresh(resp, encryptedRefreshToken) ==
  [access_token  |-> encrypt(resp.access_token, ENCRYPTION_KEY),
   refresh_token |-> IF resp.refresh_token # NoSecret
                       THEN encrypt(resp.refresh_token, ENCRYPTION_KEY)
                       ELSE NoBlob,
   expires_at    |-> now + resp.expires_in,
   epic_base_url |-> NULL]

\* The columns refreshEpicToken sends to the update; the refresh token that
\* was read is carried forward when the server issued none.
RefreshRow(resp, encryptedRefreshToken) ==
  [access_token  |-> encrypt(resp.access_token, ENCRYPTION_KEY),
   refresh_token |-> IF resp.refresh_token # NoSecret
                       THEN encrypt(resp.refresh_token, ENCRYPTION_KEY)
                       ELSE encryptedRefreshToken,
   expires_at    |-> now + resp.expires_in,
   epic_base_url |-> NULL]

UpdateTokens_unlessLater(table, doctorEmail, row) ==
  IF table[doctorEmail] = NoRow \/ table[doctorEmail].expires_at >= row.expires_at
    THEN table
    ELSE [table EXCEPT ![doctorEmail] =
            [@ EXCEPT !.access_token = row.access_token,
                      !.refresh_token = row.refresh_token,
                      !.expires_at = row.expires_at]]

UpdateTokens_everyRow(table, doctorEmail, row) ==
  [p \in DOMAIN table |->
     IF table[p] = NoRow
       THEN NoRow
       ELSE [table[p] EXCEPT !.access_token = row.access_token,
                             !.refresh_token = row.refresh_token,
                             !.expires_at = row.expires_at]]

\* update(...).eq('doctor_email', doctorEmail): the three columns of the row
\* of that principal, if there is one.
UpdateTokens(table, doctorEmail, row) ==
  IF table[doctorEmail] = NoRow
    THEN table
    ELSE [table EXCEPT ![doctorEmail] =
            [@ EXCEPT !.access_token = row.access_token,
                      !.refresh_token = row.refresh_token,
                      !.expires_at = row.expires_at]]

\* refreshEpicToken: the token endpoint has answered; on a 200 answer the
\* new columns are built and the update of epic_tokens settles.
refreshEpicToken_response(t) ==
  /\ tasks[t].op = "getEpicToken"
  /\ tasks[t].pc = "refresh"
  /\ \E resp \in TokenResponses(tasks[t].req), dbError \in BOOLEAN :
       LET row == RefreshRow(resp, tasks[t].read.refresh_token) IN
       IF resp.rejected
         THEN /\ tasks' = [settled EXCEPT ![t] = Done(@, "NetworkError")]
              /\ UNCHANGED epic_tokens
         ELSE IF ~responseOk(resp)
           THEN /\ tasks' = [settled EXCEPT ![t] =
                               Done([@ EXCEPT !.resp = resp], "RefreshFailedError")]
                /\ UNCHANGED epic_tokens
           ELSE IF dbError
             THEN /\ tasks' = [settled EXCEPT ![t] =
                                 Done([@ EXCEPT !.resp = resp, !.row = row],
                                      "StoreError")]
                  /\ UNCHANGED epic_tokens
             ELSE /\ epic_tokens' = UpdateTokens(epic_tokens, tasks[t].email, row)
                  /\ tasks' = [settled EXCEPT ![t] =
                                 [@ EXCEPT !.pc = "audit", !.resp = resp,
                                           !.row = row, !.writes = @ + 1]]
  /\ UNCHANGED <<cfgVars, epic_patient_data, now, sessionStorage, epic_audit_log, tokenCalls,
                 ops, issued, lastBegin, flow>>

\* refreshEpicToken: logAuditEvent settles; the new access token is opened
\* and returned.
refreshEpicToken_audit(t) ==
  /\ tasks[t].op = "getEpicToken"
  /\ tasks[t].pc = "audit"
  /\ \E inserted \in BOOLEAN :
       /\ epic_audit_log' =
             logAuditEvent(AuditEvent(tasks[t].email, "epic_token_refreshed"), inserted)
       /\ tasks' = [settled EXCEPT ![t] =
            audited(
                 IF decrypts(tasks[t].row.access_token, ENCRYPTION_KEY)
                   THEN returnToken([@ EXCEPT !.emitted =
                                       Append(@, "epic_token_refreshed")],
                                    decrypt(tasks[t].row.access_token,
                                            ENCRYPTION_KEY))
                   ELSE Done([@ EXCEPT !.emitted = Append(@, "epic_token_refreshed")],
                             "DecryptionError"),
                    inserted)]
  /\ UNCHANGED <<cfgVars, epic_patient_data, now, sessionStorage, epic_tokens, tokenCalls,
                 ops, issued, lastBegin, flow>>

----------------------------------------------------------------------------
\* disconnectEpic(doctorEmail): the delete from epic_tokens settles.
disconnectEpic(t, doctorEmail) ==
  LET call == [IdleTask EXCEPT !.op = "disconnectEpic", !.email = doctorEmail]
  IN
  /\ Free(t)
  /\ \E error \in BOOLEAN :
       IF error
         THEN /\ tasks' = [settled EXCEPT ![t] = Done(call, "DisconnectError")]
              /\ UNCHANGED epic_tokens
         ELSE /\ epic_tokens' = [epic_tokens EXCEPT ![doctorEmail] = NoRow]
              /\ tasks' = [settled EXCEPT ![t] =
                             [call EXCEPT !.pc = "audit", !.writes = 1]]
  /\ ops' = ops + 1
  /\ UNCHANGED <<cfgVars, epic_patient_data, now, sessionStorage, epic_audit_log, tokenCalls,
                 issued, lastBegin, flow>>

\* disconnectEpic: logAuditEvent settles.
disconnectEpic_audit(t) ==
  /\ tasks[t].op = "disconnectEpic"
  /\ tasks[t].pc = "audit"
  /\ \E inserted \in BOOLEAN :
       /\ epic_audit_log' =
             logAuditEvent(AuditEvent(tasks[t].email, "epic_disconnected"), inserted)
       /\ tasks' = [settled EXCEPT ![t] =
            audited(Done([@ EXCEPT !.emitted = Append(@, "epic_disconnected")], "disconnected"),
                    inserted)]
  /\ UNCHANGED <<cfgVars, epic_patient_data, now, sessionStorage, epic_tokens, tokenCalls,
                 ops, issued, lastBegin, flow>>

----------------------------------------------------------------------------
\* Strings the code looks into are sequences of characters.
UpperCase == <<"A", "B", "C", "D", "E", "F", "G", "H", "I", "J", "K", "L", "M",
               "N", "O", "P", "Q", "R", "S", "T", "U", "V", "W", "X", "Y", "Z">>
LowerCase == <<"a", "b", "c", "d", "e", "f", "g", "h", "i", "j", "k", "l", "m",
               "n", "o", "p", "q", "r", "s", "t", "u", "v", "w", "x", "y", "z">>
WhiteSpace == {" "}

toLowerCase_identity(str) == str

\* String.prototype.toLowerCase
toLowerCase(str) ==
  [i \in 1..Len(str) |->
     IF \E k \in 1..26 : UpperCase[k] = str[i]
       THEN LowerCase[CHOOSE k \in 1..26 : UpperCase[k] = str[i]]
       ELSE str[i]]

\* String.prototype.includes
includes(str, searchString) ==
  \E i \in 0..(Len(str) - Len(searchString)) :
    SubSeq(str, i + 1, i + Len(searchString)) = searchString

\* String.prototype.trim
RECURSIVE trimStart(_)
trimStart(str) ==
  IF str # <<>> /\ Head(str) \in WhiteSpace THEN trimStart(Tail(str)) ELSE str

RECURSIVE trimEnd(_)
trimEnd(str) ==
  IF str # <<>> /\ str[Len(str)] \in WhiteSpace
    THEN trimEnd(SubSeq(str, 1, Len(str) - 1))
    ELSE str

trim(str) == trimEnd(trimStart(str))

\* getDemoPatients(): the five fixtures, with the fields the search reads.
getDemoPatients ==
  <<
    [id    |-> "demo-patient-1",
     name  |-> <<"A", "n", "i", "s", "h", " ", "P", "o", "l", "a", "k", "a",
                 "l", "a">>,
     mrn   |-> <<"M", "R", "N", "0", "0", "1", "2", "3", "4">>,
     email |-> <<"a", "n", "i", "s", "h", ".", "p", "o", "l", "a", "k", "a",
                 "l", "a", "@", "e", "x", "a", "m", "p", "l", "e", ".", "c",
                 "o", "m">>],
    [id    |-> "demo-patient-2",
     name  |-> <<"K", "e", "i", "s", "h", "a", " ", "W", "a", "s", "h", "i",
                 "n", "g", "t", "o", "n">>,
     mrn   |-> <<"M", "R", "N", "0", "0", "5", "6", "7", "8">>,
     email |-> <<"k", "e", "i", "s", "h", "a", ".", "w", "a", "s", "h", "i",
                 "n", "g", "t", "o", "n", "@", "e", "x", "a", "m", "p", "l",
                 "e", ".", "c", "o", "m">>],
    [id    |-> "demo-patient-3",
     name  |-> <<"M", "e", "i", " ", "L", "i", "n", " ", "Z", "h", "a", "n",
                 "g">>,
     mrn   |-> <<"M", "R", "N", "0", "0", "9", "8", "7", "6">>,
     email |-> <<"m", "e", "i", "l", "i", "n", ".", "z", "h", "a", "n", "g",
                 "@", "e", "x", "a", "m", "p", "l", "e", ".", "c", "o",
                 "m">>],
    [id    |-> "demo-patient-4",
     name  |-> <<"J", "a", "m", "a", "l", " ", "T", "h", "o", "m", "p", "s",
                 "o", "n">>,
     mrn   |-> <<"M", "R", "N", "0", "0", "4", "3", "2", "1">>,
     email |-> <<"j", "a", "m", "a", "l", ".", "t", "h", "o", "m", "p", "s",
                 "o", "n", "@", "e", "x", "a", "m", "p", "l", "e", ".", "c",
                 "o", "m">>],
    [id    |-> "demo-patient-5",
     name  |-> <<"P", "r", "i", "y", "a", " ", "S", "h", "a", "r", "m", "a">>,
     mrn   |-> <<"M", "R", "N", "0", "0", "7", "6", "5", "4">>,
     email |-> <<"p", "r", "i", "y", "a", ".", "s", "h", "a", "r", "m", "a",
                 "@", "e", "x", "a", "m", "p", "l", "e", ".", "c", "o", "m">>]
  >>

\* The demo branch of searchEpicPatients: all fixtures for a query that is
\* empty after trim, otherwise those whose name, mrn or email includes the
\* lower-cased query.
demoSearch(query) ==
  IF query # <<>> /\ trim(query) # <<>>
    THEN LET lowerQuery == toLowerCase(query)
             hit(p) == \/ includes(toLowerCase(p.name), lowerQuery)
                       \/ includes(toLowerCase(p.mrn), lowerQuery)
                       \/ includes(toLowerCase(p.email), lowerQuery)
         IN  SelectSeq(getDemoPatients, hit)
    ELSE getDemoPatients

----------------------------------------------------------------------------
\* searchEpicPatients(doctorEmail, query): in demo mode the fixtures filtered
\* by the query are returned at once; otherwise the token is fetched and one
\* search request sent.
searchEpicPatients(t, doctorEmail, query) ==
  IF isDemo(doctorEmail)
    THEN /\ Free(t)
         /\ tasks' = [settled EXCEPT ![t] =
                        Done([IdleTask EXCEPT !.op = "searchEpicPatients",
                                              !.email = doctorEmail,
                                              !.query = query, !.demo = TRUE,
                                              !.patients = demoSearch(query)],
                             "patients")]
         /\ ops' = ops + 1
         /\ UNCHANGED <<cfgVars, epic_patient_data, now, sessionStorage,
                        epic_tokens, epic_audit_log, tokenCalls, issued,
                        lastBegin, flow>>
    ELSE getEpicTokenIn(t, doctorEmail,
                        [IdleTask EXCEPT !.fn = "searchEpicPatients",
                                         !.query = query])

\* searchEpicPatients: the search request settles.
searchEpicPatients_response(t) ==
  /\ tasks[t].op = "searchEpicPatients"
  /\ tasks[t].pc = "fetch"
  /\ \E outcome \in Outcomes :
       tasks' = [settled EXCEPT ![t] =
                   CASE outcome = "rejected" -> Done(@, "NetworkError")
                     [] outcome = "status"   -> Done(@, "SearchFailedError")
                     [] outcome = "ok"       -> [@ EXCEPT !.pc = "audit"]]
  /\ UNCHANGED <<cfgVars, epic_patient_data, now, sessionStorage, epic_tokens,
                 epic_audit_log, tokenCalls, ops, issued, lastBegin, flow>>

\* searchEpicPatients: logAuditEvent settles; the patients are returned.
searchEpicPatients_audit(t) ==
  /\ tasks[t].op = "searchEpicPatients"
  /\ tasks[t].pc = "audit"
  /\ \E inserted \in BOOLEAN :
       /\ epic_audit_log' =
             logAuditEvent(AuditEvent(tasks[t].email, "plasma_patient_search"), inserted)
       /\ tasks' = [settled EXCEPT ![t] =
            audited(
                 Done([@ EXCEPT !.emitted = Append(@, "plasma_patient_search")],
                      "patients"),
                    inserted)]
  /\ UNCHANGED <<cfgVars, epic_patient_data, now, sessionStorage, epic_tokens,
                 tokenCalls, ops, issued, lastBegin, flow>>

----------------------------------------------------------------------------
\* epicPatientId.startsWith('demo-patient-')
startsWithDemoPatient_never(epicPatientId) == FALSE

startsWithDemoPatient(epicPatientId) == epicPatientId = DemoPatient

\* The condition of the demo branch of fetchPatientData.
isDemoSync(doctorEmail, epicPatientId) ==
  isDemo(doctorEmail) \/ startsWithDemoPatient(epicPatientId)

\* getDemoPatientData(patientId): the fixture of that patient.
getDemoPatientData(patientId) ==
  LET demoPatients == {getDemoPatients[i].id : i \in 1..Len(getDemoPatients)}
      found == IF patientId \in demoPatients THEN patientId ELSE DemoPatient
  IN  [patient |-> found, conditions |-> "fixture", medications |-> "fixture",
       documents |-> "fixture", observations |-> "fixture"]

\* fetchResource: the resource of a 200 answer, null after a non-success
\* status.
fetchResource(resourcePath, outcome) ==
  IF outcome = "ok" THEN resourcePath ELSE NULL

\* fetchResourceBundle: the entries of a 200 answer, [] after a non-success
\* status.
fetchResourceBundle(resourceType, outcome) ==
  IF outcome = "ok" THEN resourceType ELSE Empty

validPatient_always(patient) == TRUE

\* parsePatient throws on a missing resource.
validPatient(patient) == patient # NULL

\* The five results of Promise.all, parsed.
parsedData(fetched, epicPatientId) ==
  [patient      |-> fetchResource(epicPatientId, fetched["Patient"]),
   conditions   |-> fetchResourceBundle("Condition", fetched["Condition"]),
   medications  |-> fetchResourceBundle("MedicationRequest",
                                        fetched["MedicationRequest"]),
   documents    |-> fetchResourceBundle("DocumentReference",
                                        fetched["DocumentReference"]),
   observations |-> fetchResourceBundle("Observation", fetched["Observation"])]

SnapshotRow_dropsMedications(patientData) ==
  [patient     |-> patientData.patient,
   documents   |-> patientData.documents,
   conditions  |-> patientData.conditions,
   medications |-> Empty,
   last_synced |-> now]

\* The row storeEpicPatientData sends to the upsert.
SnapshotRow(patientData) ==
  [patient     |-> patientData.patient,
   documents   |-> patientData.documents,
   conditions  |-> patientData.conditions,
   medications |-> patientData.medications,
   last_synced |-> now]

\* fetchPatientData(doctorEmail, epicPatientId): in demo mode the fixture is
\* handed to storeEpicPatientData; otherwise the token is fetched and the
\* five requests sent.
fetchPatientData(t, doctorEmail, epicPatientId) ==
  IF isDemoSync(doctorEmail, epicPatientId)
    THEN /\ Free(t)
         /\ tasks' = [settled EXCEPT ![t] =
                        [IdleTask EXCEPT !.op = "fetchPatientData",
                                         !.pc = "store",
                                         !.email = doctorEmail,
                                         !.epicPatientId = epicPatientId,
                                         !.demo = TRUE,
                                         !.data = getDemoPatientData(epicPatientId)]]
         /\ ops' = ops + 1
         /\ UNCHANGED <<cfgVars, epic_patient_data, now, sessionStorage,
                        epic_tokens, epic_audit_log, tokenCalls, issued,
                        lastBegin, flow>>
    ELSE getEpicTokenIn(t, doctorEmail,
                        [IdleTask EXCEPT !.fn = "fetchPatientData",
                                         !.epicPatientId = epicPatientId])

\* fetchPatientData: Promise.all settles, rejected as soon as one of the
\* five fetches is, and fulfilled when all five are; then the results are
\* parsed and handed to storeEpicPatientData.
fetchPatientData_settle(t) ==
  /\ tasks[t].op = "fetchPatientData"
  /\ tasks[t].pc = "fetch"
  /\ \E fetched \in PromiseAll :
       tasks' = [settled EXCEPT ![t] =
                   IF \E c \in Categories : fetched[c] = "rejected"
                     THEN Done([@ EXCEPT !.fetched = fetched], "NetworkError")
                     ELSE IF ~validPatient(parsedData(fetched,
                                                      tasks[t].epicPatientId).patient)
                       THEN Done([@ EXCEPT !.fetched = fetched],
                                 "InvalidPatientError")
                       ELSE [@ EXCEPT !.pc = "store", !.fetched = fetched,
                                      !.data = parsedData(fetched,
                                                          tasks[t].epicPatientId)]]
  /\ UNCHANGED <<cfgVars, epic_patient_data, now, sessionStorage, epic_tokens,
                 epic_audit_log, tokenCalls, ops, issued, lastBegin, flow>>

storeEpicPatientData_swallowing(t) ==
  /\ tasks[t].op = "fetchPatientData"
  /\ tasks[t].pc = "store"
  /\ \E error \in BOOLEAN :
       IF error
         THEN /\ tasks' = [settled EXCEPT ![t].pc = "audit"]
              /\ UNCHANGED epic_patient_data
         ELSE /\ epic_patient_data' =
                   [epic_patient_data EXCEPT
                      ![<<tasks[t].email, tasks[t].epicPatientId>>] =
                        SnapshotRow(tasks[t].data)]
              /\ tasks' = [settled EXCEPT ![t] =
                             [@ EXCEPT !.pc = "audit", !.writes = @ + 1,
                                       !.stored = SnapshotRow(tasks[t].data)]]
  /\ UNCHANGED <<cfgVars, now, sessionStorage, epic_tokens, epic_audit_log,
                 tokenCalls, ops, issued, lastBegin, flow>>

\* storeEpicPatientData: the upsert into epic_patient_data settles.
storeEpicPatientData(t) ==
  /\ tasks[t].op = "fetchPatientData"
  /\ tasks[t].pc = "store"
  /\ \E error \in BOOLEAN :
       IF error
         THEN /\ tasks' = [settled EXCEPT ![t] = Done(@, "StoreError")]
              /\ UNCHANGED epic_patient_data
         ELSE /\ epic_patient_data' =
                   [epic_patient_data EXCEPT
                      ![<<tasks[t].email, tasks[t].epicPatientId>>] =
                        SnapshotRow(tasks[t].data)]
              /\ tasks' = [settled EXCEPT ![t] =
                             [@ EXCEPT !.pc = "audit", !.writes = @ + 1,
                                       !.stored = SnapshotRow(tasks[t].data)]]
  /\ UNCHANGED <<cfgVars, now, sessionStorage, epic_tokens, epic_audit_log,
                 tokenCalls, ops, issued, lastBegin, flow>>

fetchedAction_plasma(demo) == "plasma_patient_data_fetched"

\* The action fetchPatientData logs on each of its two paths.
fetchedAction(demo) ==
  IF demo THEN "demo_patient_data_fetched" ELSE "plasma_patient_data_fetched"

\* fetchPatientData: logAuditEvent settles; the data are returned.
fetchPatientData_audit(t) ==
  /\ tasks[t].op = "fetchPatientData"
  /\ tasks[t].pc = "audit"
  /\ \E inserted \in BOOLEAN :
       /\ epic_audit_log' =
             logAuditEvent(PatientAuditEvent(tasks[t].email, tasks[t].epicPatientId,
                                             fetchedAction(tasks[t].demo)),
                           inserted)
       /\ tasks' = [settled EXCEPT ![t] =
            audited(
                 Done([@ EXCEPT !.emitted = Append(@, fetchedAction(tasks[t].demo))],
                      "data"),
                    inserted)]
  /\ UNCHANGED <<cfgVars, epic_patient_data, now, sessionStorage, epic_tokens,
                 tokenCalls, ops, issued, lastBegin, flow>>

----------------------------------------------------------------------------
olderThan_orEqual(timestamp, time, days) ==
  timestamp <= time - days * SecondsPerDay

\* timestamp < NOW() - INTERVAL 'days'
olderThan(timestamp, time, days) ==
  timestamp < time - days * SecondsPerDay

\* DELETE FROM epic_audit_log WHERE timestamp < NOW() - INTERVAL '90 days'
sweepAudit(log, time) ==
  LET kept(r) == ~olderThan(r.timestamp, time, AuditRetentionDays)
  IN  SelectSeq(log, kept)

\* DELETE FROM epic_patient_data WHERE last_synced < NOW() - INTERVAL '30 days'
sweepData(table, time) ==
  [k \in DOMAIN table |->
     IF table[k] # NoSnapshot /\ olderThan(table[k].last_synced, time, DataRetentionDays)
       THEN NoSnapshot ELSE table[k]]

\* cleanup_old_epic_data(): both deletes, in one transaction of the database.
\* It is run in the database, whenever and as often as its operator likes.
cleanup_old_epic_data ==
  /\ epic_patient_data' = sweepData(epic_patient_data, now)
  /\ epic_audit_log' = sweepAudit(epic_audit_log, now)
  /\ tasks' = settled
  /\ UNCHANGED <<cfgVars, now, sessionStorage, epic_tokens, tokenCalls,
                 ops, issued, lastBegin, flow>>

----------------------------------------------------------------------------
\* processCallback: the code and the state of the callback URL, both present;
\* the state is one that was generated or one that never was.
HandleEpicCallback ==
  \E t \in TaskIds, code \in Codes, state \in 1..(issued + 1) :
    handleEpicCallback(t, code, state)

GetEpicToken ==
  \E t \in TaskIds, doctorEmail \in clinic : getEpicToken(t, doctorEmail)

DisconnectEpic ==
  \E t \in TaskIds, doctorEmail \in clinic : disconnectEpic(t, doctorEmail)

Next ==
  \/ Tick
  \/ InitEpicAuth
  \/ \E t \in TaskIds : createDemoConnection_upsert(t)
  \/ \E t \in TaskIds : createDemoConnection_audit(t)
  \/ HandleEpicCallback
  \/ \E t \in TaskIds : handleEpicCallback_exchange(t)
  \/ \E t \in TaskIds : handleEpicCallback_audit(t)
  \/ GetEpicToken
  \/ \E t \in TaskIds : refreshEpicToken_response(t)
  \/ \E t \in TaskIds : refreshEpicToken_audit(t)
  \/ DisconnectEpic
  \/ \E t \in TaskIds : disconnectEpic_audit(t)

Spec == Init /\ [][Next]_vars

----------------------------------------------------------------------------
\* The application with the patient pages and the retention job: the tables
\* start with rows of an earlier session, one as old as the retention window
\* to the second and one a day younger; outside demo mode the doctor is
\* connected and the page has been loaded by the redirect that followed an
\* initEpicAuth.
EarlierAuditLog ==
  [i \in 1..2 |->
     [event |-> AuditEvent(Doctor, "epic_oauth_connected"),
      timestamp |-> 0 - AuditRetentionDays * SecondsPerDay
                      + (i - 1) * SecondsPerDay]]

EarlierSnapshot(epicPatientId, age) ==
  [patient |-> epicPatientId, documents |-> Empty, conditions |-> "Condition",
   medications |-> Empty,
   last_synced |-> 0 - DataRetentionDays * SecondsPerDay + age]

EarlierPatientData ==
  [k \in Principals \X PatientIds |->
     CASE k = <<Doctor, PlasmaPatient>>   -> EarlierSnapshot(PlasmaPatient, 0)
       [] k = <<DemoDoctor, DemoPatient>> ->
            EarlierSnapshot(DemoPatient, SecondsPerDay)
       [] OTHER -> NoSnapshot]

InitAll ==
  /\ demoMode \in BOOLEAN
  /\ ENCRYPTION_KEY \in Keys
  /\ parallel = 1
  /\ pure = NoCall
  /\ clinic = {Doctor, DemoDoctor}
  /\ budget = MaxCalls
  /\ now = 0
  /\ epic_tokens \in [Principals -> EarlierRows(ENCRYPTION_KEY)]
  /\ \A p \in Principals : demoMode \/ p \notin clinic => epic_tokens[p] = NoRow
  /\ epic_tokens[DemoDoctor] = NoRow
  /\ ~demoMode => /\ epic_tokens[Doctor] # NoRow
                  /\ epic_tokens[Doctor].refresh_token # NoBlob
  /\ epic_audit_log = EarlierAuditLog
  /\ epic_patient_data = EarlierPatientData
  /\ tokenCalls = 0
  /\ tasks = [t \in TaskIds |-> IdleTask]
  /\ ops = 0
  /\ IF ~demoMode
       THEN /\ sessionStorage = [epic_oauth_state |-> 1,
                                 epic_oauth_doctor_email |-> Doctor]
            /\ issued = 1
            /\ lastBegin = [email |-> Doctor,
                            url |-> [response_type |-> "code", state |-> 1,
                                     aud |-> fhirApiBase],
                            oauthEmail |-> Doctor]
            /\ flow = "AwaitingRedirect"
       ELSE /\ sessionStorage = [epic_oauth_state |-> 0,
                                 epic_oauth_doctor_email |-> NULL]
            /\ issued = 0
            /\ lastBegin = [email |-> NULL, url |-> NoUrl, oauthEmail |-> NULL]
            /\ flow = "Idle"

SearchEpicPatients ==
  \E t \in TaskIds, doctorEmail \in clinic, query \in Queries :
    searchEpicPatients(t, doctorEmail, query)

FetchPatientData ==
  \E t \in TaskIds, doctorEmail \in clinic, epicPatientId \in PatientIds :
    fetchPatientData(t, doctorEmail, epicPatientId)

NextAll ==
  \/ Tick
  \/ InitEpicAuth
  \/ \E t \in TaskIds : createDemoConnection_upsert(t)
  \/ \E t \in TaskIds : createDemoConnection_audit(t)
  \/ HandleEpicCallback
  \/ \E t \in TaskIds : handleEpicCallback_exchange(t)
  \/ \E t \in TaskIds : handleEpicCallback_audit(t)
  \/ \E t \in TaskIds : refreshEpicToken_response(t)
  \/ \E t \in TaskIds : refreshEpicToken_audit(t)
  \/ DisconnectEpic
  \/ \E t \in TaskIds : disconnectEpic_audit(t)
  \/ SearchEpicPatients
  \/ \E t \in TaskIds : searchEpicPatients_response(t)
  \/ \E t \in TaskIds : searchEpicPatients_audit(t)
  \/ FetchPatientData
  \/ \E t \in TaskIds : fetchPatientData_settle(t)
  \/ \E t \in TaskIds : storeEpicPatientData(t)
  \/ \E t \in TaskIds : fetchPatientData_audit(t)
  \/ cleanup_old_epic_data

SpecAll == InitAll /\ [][NextAll]_vars

----------------------------------------------------------------------------
\* Two doctors connected earlier, one with a refresh token and a token of the
\* shortest lifetime, one without and with a token of the longest, and the
\* demo doctor, at work at the same time, with up to two calls in flight
\* besides the demo connection.
InitPair ==
  /\ demoMode = FALSE
  /\ ENCRYPTION_KEY \in Keys
  /\ parallel = 2
  /\ pure = NoCall
  /\ clinic = Principals
  /\ budget = MaxPairCalls
  /\ now = 0
  /\ sessionStorage = [epic_oauth_state |-> 0, epic_oauth_doctor_email |-> NULL]
  /\ epic_tokens \in [Principals -> EarlierRows(ENCRYPTION_KEY)]
  /\ epic_tokens[DemoDoctor] = NoRow
  /\ \A p \in {Doctor, Doctor2} : epic_tokens[p] # NoRow
  /\ epic_tokens[Doctor].refresh_token # NoBlob
  /\ epic_tokens[Doctor2].refresh_token = NoBlob
  /\ \A l \in Lifetimes : /\ epic_tokens[Doctor].expires_at <= l
                          /\ epic_tokens[Doctor2].expires_at >= l
  /\ epic_audit_log = <<>>
  /\ epic_patient_data = [k \in Principals \X PatientIds |-> NoSnapshot]
  /\ tokenCalls = 0
  /\ tasks = [t \in TaskIds |-> IdleTask]
  /\ ops = 0
  /\ issued = 0
  /\ lastBegin = [email |-> NULL, url |-> NoUrl, oauthEmail |-> NULL]
  /\ flow = "Idle"

SpecPair == InitPair /\ [][Next]_vars

----------------------------------------------------------------------------
\* One browser session outside demo mode with a key configured: the doctor
\* was connected earlier and holds a refresh token, and goes through the
\* authorization flow again, once or several times.
InitFlow ==
  /\ Init
  /\ ~demoMode
  /\ ENCRYPTION_KEY \in Keys
  /\ epic_tokens[Doctor] # NoRow
  /\ epic_tokens[Doctor].refresh_token # NoBlob

SpecFlow == InitFlow /\ [][Next]_vars

----------------------------------------------------------------------------
\* The search box of the patient page in demo mode: what a doctor may type,
\* up to MaxQuery characters, upper and lower case and blanks.
Typed == {"a", "N", "m", "R", " "}
TypedQueries == UNION {[1..n -> Typed] : n \in 0..MaxQuery}

InitSearch ==
  /\ demoMode \in BOOLEAN
  /\ ENCRYPTION_KEY \in Keys
  /\ parallel = 1
  /\ pure = NoCall
  /\ clinic = IF demoMode THEN {Doctor, DemoDoctor} ELSE {DemoDoctor}
  /\ budget = 1
  /\ now = 0
  /\ sessionStorage = [epic_oauth_state |-> 0, epic_oauth_doctor_email |-> NULL]
  /\ epic_tokens = [p \in Principals |-> NoRow]
  /\ epic_audit_log = <<>>
  /\ epic_patient_data = [k \in Principals \X PatientIds |-> NoSnapshot]
  /\ tokenCalls = 0
  /\ tasks = [t \in TaskIds |-> IdleTask]
  /\ ops = 0
  /\ issued = 0
  /\ lastBegin = [email |-> NULL, url |-> NoUrl, oauthEmail |-> NULL]
  /\ flow = "Idle"

TypeSearch ==
  \E t \in TaskIds, doctorEmail \in clinic, query \in TypedQueries :
    searchEpicPatients(t, doctorEmail, query)

SpecSearch == InitSearch /\ [][TypeSearch]_vars

----------------------------------------------------------------------------
\* The cipher by itself: a text is encrypted under a key (or under none),
\* the blob is stored, comes back as it was or changed, and is decrypted
\* under a key.
OtherKey == "k2"
CipherKeys == Keys \cup {OtherKey, NoKey}
Texts == {Secret("access_token", 1), Secret("refresh_token", 1),
          Secret("text", 1)}
Changes == {"none", "truncated", "modified", "retagged"}

\* Nothing else goes on.
Quiet ==
  /\ demoMode = FALSE
  /\ ENCRYPTION_KEY = NoKey
  /\ parallel = 1
  /\ clinic = {}
  /\ budget = 0
  /\ now = 0
  /\ sessionStorage = [epic_oauth_state |-> 0, epic_oauth_doctor_email |-> NULL]
  /\ epic_tokens = [p \in Principals |-> NoRow]
  /\ epic_audit_log = <<>>
  /\ epic_patient_data = [k \in Principals \X PatientIds |-> NoSnapshot]
  /\ tokenCalls = 0
  /\ tasks = [t \in TaskIds |-> IdleTask]
  /\ ops = 0
  /\ issued = 0
  /\ lastBegin = [email |-> NULL, url |-> NoUrl, oauthEmail |-> NULL]
  /\ flow = "Idle"

programVars == <<demoMode, ENCRYPTION_KEY, parallel, clinic, budget, now,
                 sessionStorage, epic_tokens, epic_audit_log,
                 epic_patient_data, tokenCalls, tasks, ops, issued, lastBegin,
                 flow>>

InitCipher ==
  /\ Quiet
  /\ pure \in [fn : {"cipher"}, step : {"start"}, text : Texts,
               key : CipherKeys, blob : {NoBlob}, change : {"none"},
               key2 : CipherKeys, out : {NoSecret}]

\* encrypt(text, key)
Encrypt ==
  /\ pure.step = "start"
  /\ pure' = [pure EXCEPT !.step = "encrypted",
                          !.blob = encrypt(pure.text, pure.key)]
  /\ UNCHANGED programVars

\* The blob is written to a TEXT column and read again; whoever can write
\* the column may have changed it in between.
Store ==
  /\ pure.step = "encrypted"
  /\ \E change \in Changes :
       pure' = [pure EXCEPT
                  !.step = "stored",
                  !.change = change,
                  !.blob = CASE change = "none" -> @
                             [] change \in {"truncated", "modified"} -> damaged(@)
                             [] change = "retagged" ->
                                  retagged(@, Secret("forged", 1))]
  /\ UNCHANGED programVars

\* decrypt(blob, key2): the text, or an Error thrown.
Decrypt ==
  /\ pure.step = "stored"
  /\ pure' = IF decrypts(pure.blob, pure.key2)
               THEN [pure EXCEPT !.step = "decrypted",
                                 !.out = decrypt(pure.blob, pure.key2)]
               ELSE [pure EXCEPT !.step = "failed"]
  /\ UNCHANGED programVars

NextCipher == Encrypt \/ Store \/ Decrypt

SpecCipher == InitCipher /\ [][NextCipher]_vars

----------------------------------------------------------------------------
\* The list parsers of the FHIR resource parser.  A resource is looked at
\* for its resourceType and for the date the parser sorts by: none given,
\* a string that Date cannot parse, or a date, held as its time value
\* (days before or after 1 January 1970).
MaxList == 3
Missing == [is |-> "null", time |-> 0]
Unparseable == [is |-> "invalid", time |-> 0]
DateString(time) == [is |-> "date", time |-> time]
DateFields == {Missing, Unparseable, DateString(-1), DateString(1)}

\* new Date(value): new Date(null) is the epoch, an unparseable string gives
\* an Invalid Date, whose time value is NaN.
isNaN(value) == value.is = "invalid"
getTime(value) == IF value.is = "date" THEN value.time ELSE 0

\* (a, b) => new Date(b.date) - new Date(a.date), as sort reads it: a NaN
\* result counts as +0.
compareFn(a, b) ==
  IF isNaN(a.date) \/ isNaN(b.date) THEN 0
  ELSE getTime(b.date) - getTime(a.date)

\* Array.prototype.sort is stable and orders by the comparator where the
\* comparator is consistent on the array; where it is not (a =CF b and
\* b =CF c without a =CF c), the order is implementation-defined.
Orderings(n) ==
  {f \in [1..n -> 1..n] : \A i, j \in 1..n : i # j => f[i] # f[j]}

consistent(array) ==
  \A i, j, k \in 1..Len(array) :
    compareFn(array[i], array[j]) = 0 /\ compareFn(array[j], array[k]) = 0
      => compareFn(array[i], array[k]) = 0

sort(array) ==
  LET n == Len(array)
      ordered(f) ==
        \A i, j \in 1..n :
          i < j => \/ compareFn(array[f[i]], array[f[j]]) < 0
                   \/ /\ compareFn(array[f[i]], array[f[j]]) = 0
                      /\ f[i] < f[j]
  IN  {[i \in 1..n |-> array[f[i]]] :
         f \in {g \in Orderings(n) : consistent(array) => ordered(g)}}

\* .filter(r => r.resourceType === type).map(...): the parsed entry carries
\* the date and the resource it was made from.
matching(resources, type) ==
  LET is(r) == r.resourceType = type
      kept == SelectSeq(resources, is)
  IN  [i \in 1..Len(kept) |-> [date |-> kept[i].date, raw |-> kept[i]]]

parseConditions(conditions) == sort(matching(conditions, "Condition"))
parseMedications(medications) == sort(matching(medications, "MedicationRequest"))
parseDocuments(documents) == sort(matching(documents, "DocumentReference"))
parseObservations(observations) == sort(matching(observations, "Observation"))

ListParsers == {"parseConditions", "parseMedications", "parseDocuments",
                "parseObservations"}

resourceTypeOf(fn) ==
  CASE fn = "parseConditions" -> "Condition"
    [] fn = "parseMedications" -> "MedicationRequest"
    [] fn = "parseDocuments" -> "DocumentReference"
    [] fn = "parseObservations" -> "Observation"

\* The lists a parser is given: resources of its kind and Patient resources
\* among them.
Resources(fn) == [resourceType : {resourceTypeOf(fn), "Patient"},
                  date : DateFields]

InitParse ==
  /\ Quiet
  /\ \E fn \in ListParsers, n \in 0..MaxList :
       \E list \in [1..n -> Resources(fn)] :
         pure = [fn |-> fn, step |-> "start", list |-> list, out |-> <<>>]

Parsed(out) ==
  /\ pure' = [pure EXCEPT !.step = "parsed", !.out = out]
  /\ UNCHANGED programVars

ParseConditions ==
  /\ pure.fn = "parseConditions" /\ pure.step = "start"
  /\ \E out \in parseConditions(pure.list) : Parsed(out)

ParseMedications ==
  /\ pure.fn = "parseMedications" /\ pure.step = "start"
  /\ \E out \in parseMedications(pure.list) : Parsed(out)

ParseDocuments ==
  /\ pure.fn = "parseDocuments" /\ pure.step = "start"
  /\ \E out \in parseDocuments(pure.list) : Parsed(out)

ParseObservations ==
  /\ pure.fn = "parseObservations" /\ pure.step = "start"
  /\ \E out \in parseObservations(pure.list) : Parsed(out)

NextParse ==
  ParseConditions \/ ParseMedications \/ ParseDocuments \/ ParseObservations

SpecParse == InitParse /\ [][NextParse]_vars

----------------------------------------------------------------------------
\* Properties

Callbacks == {t \in CallSlots : tasks[t].op = "handleEpicCallback"}
TokenGets == {t \in CallSlots : tasks[t].op = "getEpicToken"}

Untouched(task) ==
  task.calls = 0 /\ task.writes = 0 /\ task.emitted = <<>>

Recorded(doctorEmail, action) ==
  \E i \in 1..Len(epic_audit_log) :
    epic_audit_log[i].event = AuditEvent(doctorEmail, action)

\* C1: handleEpicCallback with a state other than the stored one (also when
\* none is stored) ends with the CSRF error, having sent nothing to the token
\* endpoint, written no credential and emitted no audit event.
C1_CsrfMismatchRejected ==
  \A t \in Callbacks :
    tasks[t].state # tasks[t].saved
      => /\ tasks[t].pc = "done"
         /\ tasks[t].result = "CsrfError"
         /\ Untouched(tasks[t])

C1_Witness ==
  \E t \in Callbacks :
    /\ tasks[t].result = "CsrfError"
    /\ tasks[t].saved # 0
    /\ tasks[t].state # tasks[t].saved

C3_ExpiredRefreshedOnce ==
  \A t \in TokenGets :
    (/\ tasks[t].read # NoRow
     /\ tasks[t].at >= tasks[t].read.expires_at
     /\ tasks[t].read.refresh_token # NoBlob)
      => /\ tasks[t].calls = 1
         /\ (tasks[t].pc = "audit" \/ tasks[t].result = "token")
              => /\ epic_tokens[tasks[t].email] # NoRow
                 /\ epic_tokens[tasks[t].email].expires_at = tasks[t].row.expires_at
                 /\ epic_tokens[tasks[t].email].expires_at > tasks[t].read.expires_at

C3_Witness ==
  \E t \in TokenGets :
    /\ tasks[t].result = "token"
    /\ tasks[t].calls = 1
    /\ tasks[t].at = tasks[t].read.expires_at

\* C4: getEpicToken fails with NotConnectedError when it finds no record and
\* with NoRefreshTokenError when the record is expired and has no refresh
\* secret; in both cases nothing is sent to the token endpoint and the store
\* is not written.
C4_MissingCredential ==
  \A t \in TokenGets :
    /\ tasks[t].read = NoRow
         => /\ tasks[t].pc = "done"
            /\ tasks[t].result = "NotConnectedError"
            /\ Untouched(tasks[t])
    /\ (/\ tasks[t].read # NoRow
        /\ tasks[t].at >= tasks[t].read.expires_at
        /\ tasks[t].read.refresh_token = NoBlob)
         => /\ tasks[t].pc = "done"
            /\ tasks[t].result = "NoRefreshTokenError"
            /\ Untouched(tasks[t])
            /\ epic_tokens[tasks[t].email] = tasks[t].read

C4_Witness ==
  \E t \in TokenGets :
    /\ tasks[t].result = "NotConnectedError"
    /\ epic_tokens[tasks[t].email] = NoRow
    /\ Recorded(tasks[t].email, "epic_disconnected")

\* C5: when the token endpoint answers a refresh with a non-success status,
\* getEpicToken fails with RefreshFailedError after that one request, the
\* record is what was read, and no epic_token_refreshed event is emitted.
C5_RefreshFailureLeavesRecord ==
  \A t \in TokenGets :
    (/\ tasks[t].resp # NoResponse
     /\ ~tasks[t].resp.ok
     /\ ~tasks[t].resp.rejected)
      => /\ tasks[t].pc = "done"
         /\ tasks[t].result = "RefreshFailedError"
         /\ tasks[t].calls = 1
         /\ tasks[t].writes = 0
         /\ tasks[t].emitted = <<>>
         /\ epic_tokens[tasks[t].email] = tasks[t].read

C5_Witness ==
  \E t \in TokenGets :
    /\ tasks[t].result = "RefreshFailedError"
    /\ tasks[t].resp.body \in ErrorBodies

\* C6: a successful refresh replaces access secret, refresh secret and expiry
\* of the record in one write: before it the record is the one read, after it
\* all three are the new ones, the refresh secret being the newly issued one
\* or else the one read; one epic_token_refreshed event is emitted and the
\* token returned is the one of the response.
C6_RefreshOverwritesAtomically ==
  \A t \in TokenGets :
    tasks[t].calls = 1 =>
      LET stored == epic_tokens[tasks[t].email]
          read   == tasks[t].read
          resp   == tasks[t].resp
      IN  IF tasks[t].pc = "audit" \/ tasks[t].result = "token"
            THEN /\ stored.access_token = encrypt(resp.access_token, ENCRYPTION_KEY)
                 /\ stored.refresh_token =
                      IF resp.refresh_token # NoSecret
                        THEN encrypt(resp.refresh_token, ENCRYPTION_KEY)
                        ELSE read.refresh_token
                 /\ stored.expires_at = tasks[t].row.expires_at
                 /\ stored.expires_at >= tasks[t].at + resp.expires_in
                 /\ stored.epic_base_url = read.epic_base_url
                 /\ stored.access_token # read.access_token
                 /\ tasks[t].writes = 1
                 /\ tasks[t].pc = "done"
                      => /\ tasks[t].emitted = <<"epic_token_refreshed">>
                         /\ tasks[t].token = resp.access_token
            ELSE /\ stored = read
                 /\ tasks[t].writes = 0
                 /\ tasks[t].emitted = <<>>

C6_Witness ==
  \E t \in TokenGets :
    /\ tasks[t].result = "token"
    /\ tasks[t].calls = 1
    /\ tasks[t].resp.refresh_token = NoSecret
    /\ epic_tokens[tasks[t].email].refresh_token = tasks[t].read.refresh_token

\* C7: when initEpicAuth returns null for a demo principal, no CSRF state has
\* been stored, the principal has a credential record expiring one year from
\* now, and a demo_connection_created event has been recorded.
C7_DemoBeginConnects ==
  [][(tasks'[0].pc = "upsert" /\ tasks[0].pc # "upsert")
       => /\ lastBegin'.url = NoUrl
          /\ sessionStorage' = sessionStorage
          /\ epic_tokens'[lastBegin'.email] # NoRow
          /\ epic_tokens'[lastBegin'.email].expires_at = now + SecondsPerYear
          /\ \E i \in 1..Len(epic_audit_log') :
               epic_audit_log'[i].event =
                 AuditEvent(lastBegin'.email, "demo_connection_created")]_vars

\* C8: handleEpicCallback with the stored state and a successful exchange
\* upserts a record for the principal of the begin, with expiry = time of the
\* response + lifetime, emits one epic_oauth_connected event, clears the
\* stored state and principal and leaves the flow Connected.
C8_CompleteStoresCredential ==
  /\ sessionStorage.epic_oauth_state # 0
       => /\ sessionStorage.epic_oauth_state = issued
          /\ sessionStorage.epic_oauth_doctor_email = lastBegin.oauthEmail
  /\ \A t \in Callbacks :
       (tasks[t].pc = "audit" \/ tasks[t].result = "success")
         => /\ tasks[t].state = tasks[t].saved
            /\ tasks[t].email = tasks[t].begunFor
            /\ tasks[t].calls = 1
            /\ tasks[t].writes = 1
            /\ epic_tokens[tasks[t].email] = tasks[t].row
            /\ tasks[t].row.expires_at = tasks[t].at + tasks[t].resp.expires_in
            /\ tasks[t].row.access_token =
                 encrypt(tasks[t].resp.access_token, ENCRYPTION_KEY)
            /\ \A p \in Principals \ {tasks[t].email} :
                 epic_tokens[p] # tasks[t].row
            /\ tasks[t].pc = "done"
                 => /\ tasks[t].emitted = <<"epic_oauth_connected">>
                    /\ sessionStorage.epic_oauth_state = 0
                    /\ sessionStorage.epic_oauth_doctor_email = NULL
                    /\ flow = "Connected"

C8_Witness ==
  \E t \in Callbacks :
    /\ tasks[t].result = "success"
    /\ tasks[t].at > 0
    /\ epic_tokens[tasks[t].email].expires_at = tasks[t].at + tasks[t].resp.expires_in

\* C9: when the token endpoint answers the exchange with a non-success
\* status, handleEpicCallback fails with TokenExchangeError carrying the
\* response body, writes no record and emits no epic_oauth_connected event.
C9_ExchangeFailure ==
  \A t \in Callbacks :
    (/\ tasks[t].resp # NoResponse
     /\ ~tasks[t].resp.ok
     /\ ~tasks[t].resp.rejected)
      => /\ tasks[t].pc = "done"
         /\ tasks[t].result = "TokenExchangeError"
         /\ tasks[t].detail = tasks[t].resp.body
         /\ tasks[t].calls = 1
         /\ tasks[t].writes = 0
         /\ tasks[t].emitted = <<>>
         /\ flow = "Failed"

C9_Witness ==
  \E t \in Callbacks :
    /\ tasks[t].result = "TokenExchangeError"
    /\ tasks[t].detail \in ErrorBodies

\* C10 as stated: a handleEpicCallback started after one has failed, with no
\* initEpicAuth in between, never succeeds.
C10_FailedIsTerminal ==
  \A t \in Callbacks :
    tasks[t].afterFail => tasks[t].result # "success"

\* C10: a failed handleEpicCallback leaves a state stored, so a later one
\* that supplies the stored state can still connect; a successful one clears
\* it, and every handleEpicCallback started after a success and before the
\* next initEpicAuth fails the CSRF check without reaching the token endpoint.
C10_OnlySuccessEndsFlow ==
  /\ flow = "Connected" => sessionStorage.epic_oauth_state = 0
  /\ \A t \in Callbacks :
       /\ tasks[t].afterOk
            => /\ tasks[t].pc = "done"
               /\ tasks[t].result = "CsrfError"
               /\ Untouched(tasks[t])
       /\ tasks[t].result = "CsrfError"
            => sessionStorage.epic_oauth_state = tasks[t].saved
       /\ tasks[t].result \in {"TokenExchangeError", "NetworkError", "StoreError"}
            => sessionStorage.epic_oauth_state # 0

C10_Witness ==
  \E t \in Callbacks :
    /\ tasks[t].afterFail
    /\ tasks[t].result = "success"
    /\ flow = "Connected"

\* C11: every access secret and every refresh secret held in epic_tokens is
\* an output of encrypt, whichever of handleEpicCallback, refreshEpicToken
\* and createDemoConnection wrote it.
C11_StoredSecretsSealed ==
  \A p \in Principals :
    epic_tokens[p] # NoRow
      => /\ epic_tokens[p].access_token =
              encrypt(epic_tokens[p].access_token.pt, ENCRYPTION_KEY)
         /\ epic_tokens[p].refresh_token # NoBlob
              => epic_tokens[p].refresh_token =
                   encrypt(epic_tokens[p].refresh_token.pt, ENCRYPTION_KEY)

\* The call that takes a step, if it is one on behalf of principal q.
ActsFor(q) ==
  \E t \in TaskIds :
    /\ tasks'[t] # tasks[t]
    /\ tasks'[t].op # "none"
    /\ tasks'[t].email = q

\* C12: epic_tokens holds one row per principal, and the row of a principal
\* changes only in a step of a call made on behalf of that principal,
\* however the calls of two principals interleave.
C12_RecordsNotShared ==
  [][\A q \in Principals :
       epic_tokens'[q] # epic_tokens[q] => ActsFor(q)]_vars

C12_Witness ==
  \E t, u \in CallSlots :
    /\ tasks[t].email = Doctor
    /\ tasks[u].email = Doctor2
    /\ tasks[t].op = "getEpicToken" /\ tasks[t].pc = "audit"
    /\ tasks[u].op = "disconnectEpic" /\ tasks[u].pc = "audit"
    /\ epic_tokens[Doctor] = [tasks[t].read EXCEPT
                                !.access_token = tasks[t].row.access_token,
                                !.refresh_token = tasks[t].row.refresh_token,
                                !.expires_at = tasks[t].row.expires_at]
    /\ epic_tokens[Doctor2] = NoRow

\* What a call returns when nothing fails.
Returned(op) ==
  CASE op = "createDemoConnection" -> "created"
    [] op = "handleEpicCallback" -> "success"
    [] op = "getEpicToken" -> "token"
    [] op = "searchEpicPatients" -> "patients"
    [] op = "fetchPatientData" -> "data"
    [] op = "disconnectEpic" -> "disconnected"

\* C13: the step in which logAuditEvent settles leaves epic_tokens and
\* epic_patient_data as they are and ends the call with its value (for a
\* refresh inside search or sync: lets the caller go on with the new token),
\* whether the insert into epic_audit_log succeeds or fails.
C13_AuditFailureSwallowed ==
  [][\A t \in TaskIds :
       tasks[t].pc = "audit" /\ tasks'[t] # tasks[t]
         => /\ epic_tokens' = epic_tokens
            /\ epic_patient_data' = epic_patient_data
            /\ IF tasks[t].op = "getEpicToken" /\ tasks[t].fn # "none"
                 THEN /\ tasks'[t].op = tasks[t].fn
                      /\ tasks'[t].pc = "fetch"
                      /\ tasks'[t].token = decrypt(tasks[t].row.access_token,
                                                   ENCRYPTION_KEY)
                 ELSE /\ tasks'[t].pc = "done"
                      /\ tasks'[t].result = Returned(tasks[t].op)]_vars

C13_Witness ==
  /\ \E t \in CallSlots :
       /\ tasks[t].op = "fetchPatientData"
       /\ ~tasks[t].demo
       /\ tasks[t].auditFailed
       /\ tasks[t].result = "data"
       /\ epic_patient_data[<<tasks[t].email, tasks[t].epicPatientId>>] = tasks[t].stored
  /\ \A i \in 1..Len(epic_audit_log) :
       epic_audit_log[i].event.action # "plasma_patient_data_fetched"

IsPrefix(log, longer) ==
  /\ Len(log) <= Len(longer)
  /\ \A i \in 1..Len(log) : longer[i] = log[i]

\* More than the given number of days before the time.
Aged(timestamp, time, days) == time - timestamp > days * 24 * 60 * 60

\* C14: a step of initEpicAuth, handleEpicCallback, getEpicToken,
\* searchEpicPatients, fetchPatientData or disconnectEpic keeps every row of
\* epic_audit_log as and where it is and at most appends to it; rows go only
\* in a step of cleanup_old_epic_data, which removes no row that is not more
\* than 90 days old and leaves the others as they are and in their order.
C14_LedgerAppendOnly ==
  [][~IsPrefix(epic_audit_log, epic_audit_log')
       => /\ cleanup_old_epic_data
          /\ \E kept \in SUBSET (1..Len(epic_audit_log)) :
               /\ \A i \in 1..Len(epic_audit_log) :
                    i \notin kept => Aged(epic_audit_log[i].timestamp, now, 90)
               /\ Len(epic_audit_log') = Cardinality(kept)
               /\ \A i \in kept :
                    epic_audit_log'[Cardinality({j \in kept : j <= i})] =
                      epic_audit_log[i]]_vars

C14_Witness ==
  /\ Len(epic_audit_log) = 2
  /\ epic_audit_log[1] = EarlierAuditLog[2]
  /\ epic_audit_log[2].timestamp >= 0

\* C15: cleanup_old_epic_data removes exactly the rows of epic_audit_log whose
\* timestamp is more than 90 days old and exactly the rows of
\* epic_patient_data whose last_synced is more than 30 days old, leaves
\* epic_tokens alone, and run again at once removes nothing.
C15_SweepRetention ==
  [][cleanup_old_epic_data
       => /\ LET young(r) == ~Aged(r.timestamp, now, 90)
             IN  epic_audit_log' = SelectSeq(epic_audit_log, young)
          /\ \A k \in DOMAIN epic_patient_data :
               epic_patient_data'[k] =
                 IF /\ epic_patient_data[k] # NoSnapshot
                    /\ Aged(epic_patient_data[k].last_synced, now, 30)
                   THEN NoSnapshot
                   ELSE epic_patient_data[k]
          /\ epic_tokens' = epic_tokens
          /\ sweepAudit(epic_audit_log', now') = epic_audit_log'
          /\ sweepData(epic_patient_data', now') = epic_patient_data']_vars

C15_Witness ==
  /\ now > 0
  /\ epic_audit_log = <<EarlierAuditLog[2]>>
  /\ epic_patient_data[<<Doctor, PlasmaPatient>>] = NoSnapshot
  /\ epic_patient_data[<<DemoDoctor, DemoPatient>>] =
       EarlierSnapshot(DemoPatient, SecondsPerDay)
  /\ epic_tokens[Doctor] # NoRow

\* The calls of fetchPatientData, also while they are inside getEpicToken.
Syncs ==
  {t \in CallSlots : tasks[t].op = "fetchPatientData"
                       \/ tasks[t].fn = "fetchPatientData"}

Key(task) == <<task.email, task.epicPatientId>>

\* C16: fetchPatientData for the demo doctor, in demo mode or for a
\* demo-patient id sends no request, reads no row of epic_tokens and
\* refreshes nothing; it upserts the fixture into epic_patient_data under
\* (doctorEmail, epicPatientId), then emits demo_patient_data_fetched, once,
\* and returns the fixture.
C16_DemoSync ==
  \A t \in Syncs :
    (demoMode \/ tasks[t].email = DemoDoctor \/ tasks[t].epicPatientId = DemoPatient)
      => /\ tasks[t].demo
         /\ tasks[t].op = "fetchPatientData"
         /\ tasks[t].calls = 0 /\ tasks[t].fhir = 0 /\ tasks[t].loads = 0
         /\ tasks[t].data = getDemoPatientData(tasks[t].epicPatientId)
         /\ tasks[t].pc \in {"store", "audit", "done"}
         /\ tasks[t].pc = "store"
              => tasks[t].writes = 0 /\ tasks[t].emitted = <<>>
         /\ tasks[t].pc = "audit"
              => /\ tasks[t].writes = 1 /\ tasks[t].emitted = <<>>
                 /\ epic_patient_data[Key(tasks[t])].patient = tasks[t].data.patient
                 /\ epic_patient_data[Key(tasks[t])] = tasks[t].stored
         /\ tasks[t].pc = "done"
              => \/ /\ tasks[t].result = "data"
                    /\ tasks[t].writes = 1
                    /\ tasks[t].emitted = <<"demo_patient_data_fetched">>
                    /\ epic_patient_data[Key(tasks[t])] = tasks[t].stored
                    /\ tasks[t].stored.patient = tasks[t].data.patient
                    /\ tasks[t].stored.documents = tasks[t].data.documents
                 \/ /\ tasks[t].result = "StoreError"
                    /\ tasks[t].writes = 0
                    /\ tasks[t].emitted = <<>>

C16_Witness ==
  \E t \in Syncs :
    /\ ~demoMode
    /\ tasks[t].email = Doctor
    /\ tasks[t].epicPatientId = DemoPatient
    /\ tasks[t].result = "data"
    /\ epic_patient_data[Key(tasks[t])].patient = DemoPatient
    /\ epic_patient_data[Key(tasks[t])].documents = "fixture"
    /\ \E i \in 1..Len(epic_audit_log) :
         epic_audit_log[i].event =
           PatientAuditEvent(Doctor, DemoPatient, "demo_patient_data_fetched")

Failed(outcome) == outcome \in {"status", "rejected"}

\* The part of the patient data a resource type is parsed into.
Part(data, c) ==
  CASE c = "Patient" -> data.patient
    [] c = "Condition" -> data.conditions
    [] c = "MedicationRequest" -> data.medications
    [] c = "DocumentReference" -> data.documents
    [] c = "Observation" -> data.observations

\* C17: in a sync outside demo mode whose Patient fetch did not fail, a
\* Condition, MedicationRequest, DocumentReference or Observation fetch that
\* ends in a non-success status or in a failed request leaves that part of
\* the data an empty list, and the sync stores the snapshot and returns.
C17_CategoryFailureDegrades ==
  \A t \in Syncs :
    \A c \in Categories \ {"Patient"} :
      /\ tasks[t].pc = "done"
      /\ Failed(tasks[t].fetched[c])
      /\ ~Failed(tasks[t].fetched["Patient"])
      /\ tasks[t].result # "StoreError"
      => /\ tasks[t].result = "data"
         /\ Part(tasks[t].data, c) = Empty
         /\ tasks[t].writes >= 1
         /\ epic_patient_data[Key(tasks[t])] = tasks[t].stored

\* C18: when the Patient fetch of a sync outside demo mode ends in a
\* non-success status or in a failed request, fetchPatientData throws: the
\* call has upserted nothing into epic_patient_data and emitted no
\* plasma_patient_data_fetched, whatever the other four fetches did.
C18_PatientFailureIsFatal ==
  \A t \in Syncs :
    Failed(tasks[t].fetched["Patient"])
      => /\ tasks[t].pc = "done"
         /\ tasks[t].result \in {"InvalidPatientError", "NetworkError"}
         /\ tasks[t].stored = NoSnapshot
         /\ tasks[t].data = NoData
         /\ \A i \in 1..Len(tasks[t].emitted) :
              tasks[t].emitted[i] # "plasma_patient_data_fetched"

C18_Witness ==
  \E t \in Syncs :
    /\ tasks[t].fetched["Patient"] = "status"
    /\ tasks[t].fetched["Condition"] = "status"
    /\ tasks[t].fetched["Observation"] = "ok"
    /\ tasks[t].result = "InvalidPatientError"
    /\ epic_patient_data[Key(tasks[t])] = EarlierSnapshot(PlasmaPatient, 0)

SyncActions == {"plasma_patient_data_fetched", "demo_patient_data_fetched"}

\* The events of fetchPatientData a call has emitted.
SyncEvents(task) ==
  {i \in 1..Len(task.emitted) : task.emitted[i] \in SyncActions}

\* C19: a fetchPatientData call that returns data has emitted one event of
\* fetchPatientData, demo_patient_data_fetched on the demo path and
\* plasma_patient_data_fetched otherwise, as its last step and with its
\* doctor_email and epic_patient_id; a call that throws has emitted none.
C19_OneEventPerSync ==
  \A t \in Syncs :
    tasks[t].pc = "done"
      => IF tasks[t].result = "data"
           THEN /\ Cardinality(SyncEvents(tasks[t])) = 1
                /\ tasks[t].emitted[Len(tasks[t].emitted)] =
                     (IF tasks[t].demo THEN "demo_patient_data_fetched"
                                       ELSE "plasma_patient_data_fetched")
                /\ \/ tasks[t].auditFailed
                   \/ /\ Len(epic_audit_log) > 0
                      /\ epic_audit_log[Len(epic_audit_log)] =
                           [event |->
                              [doctor_email |-> tasks[t].email,
                               epic_patient_id |-> tasks[t].epicPatientId,
                               action |-> tasks[t].emitted[Len(tasks[t].emitted)]],
                            timestamp |-> now]
           ELSE SyncEvents(tasks[t]) = {}

C19_Witness ==
  \E t \in Syncs :
    /\ tasks[t].pc = "done"
    /\ tasks[t].emitted = <<"epic_token_refreshed", "plasma_patient_data_fetched">>
    /\ ~tasks[t].auditFailed
    /\ epic_audit_log[Len(epic_audit_log)].event =
         PatientAuditEvent(tasks[t].email, PlasmaPatient, "plasma_patient_data_fetched")

Searches ==
  {t \in CallSlots : tasks[t].op = "searchEpicPatients"
                       \/ tasks[t].fn = "searchEpicPatients"}

\* C20: a searchEpicPatients call that returns patients has emitted an audit
\* event, in demo mode as outside it and whatever the query.
C20_EverySearchAudited ==
  \A t \in Searches :
    tasks[t].pc = "done" /\ tasks[t].result = "patients"
      => \E i \in 1..Len(tasks[t].emitted) :
           tasks[t].emitted[i] = "plasma_patient_search"

\* The same letter, in whichever case.
SameLetter(a, b) ==
  \/ a = b
  \/ \E k \in 1..26 : {a, b} = {UpperCase[k], LowerCase[k]}

\* str contains q, letters compared without regard to case.
ContainsAnyCase(str, q) ==
  \E i \in 0..(Len(str) - Len(q)) :
    \A j \in 1..Len(q) : SameLetter(str[i + j], q[j])

Blank(q) == \A i \in 1..Len(q) : q[i] = " "

\* C21: a demo search has sent no request and read no token; for an empty
\* or blank query it returns the five fixtures, for any other query the
\* fixtures whose name, mrn or email contains the query without regard to
\* case, in the order of the fixtures.
C21_DemoSearchFilter ==
  \A t \in Searches :
    tasks[t].demo
      => /\ tasks[t].pc = "done" /\ tasks[t].result = "patients"
         /\ tasks[t].calls = 0 /\ tasks[t].fhir = 0 /\ tasks[t].loads = 0
         /\ tokenCalls = 0
         /\ LET q == tasks[t].query
                wanted(p) == \/ Blank(q)
                             \/ ContainsAnyCase(p.name, q)
                             \/ ContainsAnyCase(p.mrn, q)
                             \/ ContainsAnyCase(p.email, q)
            IN  /\ tasks[t].patients = SelectSeq(getDemoPatients, wanted)
                /\ Blank(q) => Len(tasks[t].patients) = 5

C21_Witness ==
  \E t \in Searches :
    /\ tasks[t].demo
    /\ tasks[t].query = <<"N", " ">>
    /\ Len(tasks[t].patients) = 1
    /\ tasks[t].patients[1].id = "demo-patient-3"

\* The step in which the upsert of a fetchPatientData call succeeds.
Upserts(t) == tasks[t].pc = "store" /\ tasks'[t].pc = "audit"

\* C22: epic_patient_data has one row per (doctor_email, epic_patient_id);
\* the upsert of a sync sets the patient columns, clinical notes, diagnoses
\* and medications of its own row to the data of that sync and last_synced
\* to the time of the upsert, and leaves every other row as it is; rows
\* change in no other step of a call.
C22_UpsertOverwritesOwnRow ==
  [][/\ \A t \in CallSlots :
          Upserts(t)
            => /\ epic_patient_data'[Key(tasks[t])] =
                    [patient     |-> tasks[t].data.patient,
                     documents   |-> tasks[t].data.documents,
                     conditions  |-> tasks[t].data.conditions,
                     medications |-> tasks[t].data.medications,
                     last_synced |-> now]
               /\ \A k \in DOMAIN epic_patient_data :
                    k # Key(tasks[t])
                      => epic_patient_data'[k] = epic_patient_data[k]
     /\ \A k \in DOMAIN epic_patient_data :
          epic_patient_data'[k] # epic_patient_data[k]
            => \/ cleanup_old_epic_data
               \/ \E t \in CallSlots : Upserts(t) /\ Key(tasks[t]) = k]_vars

C22_Witness ==
  /\ epic_patient_data[<<Doctor, PlasmaPatient>>].patient = PlasmaPatient
  /\ epic_patient_data[<<Doctor, PlasmaPatient>>].conditions = Empty
  /\ epic_patient_data[<<Doctor, PlasmaPatient>>].medications = "MedicationRequest"
  /\ epic_patient_data[<<Doctor, PlasmaPatient>>].last_synced = 1
  /\ epic_patient_data[<<DemoDoctor, DemoPatient>>] =
       EarlierSnapshot(DemoPatient, SecondsPerDay)

\* C27: the data a sync returns and the row it has stored under
\* (doctorEmail, epicPatientId) are those of the patient epicPatientId,
\* on the demo path as on the production path.
C27_SyncDescribesRequestedPatient ==
  \A t \in Syncs :
    tasks[t].pc = "done" /\ tasks[t].result = "data"
      => /\ tasks[t].data.patient = tasks[t].epicPatientId
         /\ epic_patient_data[Key(tasks[t])].patient = tasks[t].epicPatientId

\* C25: what was encrypted under a key and stored decrypts under the same
\* key to the same text; under another key, or after the blob was
\* truncated or changed, decrypt throws.
C25_CipherRoundTrip ==
  pure.fn = "cipher" /\ pure.step \in {"decrypted", "failed"}
    => /\ pure.change = "none" /\ pure.key2 = pure.key
         => pure.step = "decrypted" /\ pure.out = pure.text
       /\ pure.key # NoKey /\ (pure.change # "none" \/ pure.key2 # pure.key)
         => pure.step = "failed"

\* C26: encrypt without a configured key fails; no credential that a real
\* (non-demo) authorization or refresh wrote to epic_tokens is in the tagged
\* 'UNENCRYPTED:' encoding.
C26_NoTaggedCredentialStored ==
  \A t \in Callbacks \cup TokenGets :
    ~demoMode /\ tasks[t].writes > 0
      => /\ ENCRYPTION_KEY # NoKey
         /\ tasks[t].row.access_token.tag = "AESGCM"

\* C24: what a list parser returns is made of exactly the resources of its
\* kind, in non-increasing order of the dates that parse, and every entry
\* whose date is missing or does not parse comes after all entries whose
\* date parses.
Dated(entry) == entry.date.is = "date"

C24_ParsedListOrdered ==
  pure.fn \in ListParsers /\ pure.step = "parsed"
    => LET out == pure.out
           kept == matching(pure.list, resourceTypeOf(pure.fn))
       IN  /\ Len(out) = Len(kept)
           /\ \E f \in Orderings(Len(out)) :
                \A i \in 1..Len(out) : out[i] = kept[f[i]]
           /\ \A i, j \in 1..Len(out) :
                i < j => /\ Dated(out[i]) /\ Dated(out[j])
                           => out[i].date.time >= out[j].date.time
                         /\ Dated(out[j]) => Dated(out[i])

\* A getEpicToken call that found the record expired and could open its
\* refresh secret.
Refreshing(task) ==
  /\ task.op = "getEpicToken"
  /\ task.read # NoRow
  /\ task.at >= task.read.expires_at
  /\ task.read.refresh_token # NoBlob
  /\ decrypts(task.read.refresh_token, ENCRYPTION_KEY)

\* C23: refreshes are not single-flight.  Two getEpicToken calls of one
\* principal that both read the expired record each send their own request
\* to the token endpoint, and each update of the refresh overwrites the
\* record with its own columns whatever the other call has written: the
\* record is the later writer's.
C23_NoSingleFlight ==
  /\ [](\A t, u \in CallSlots :
          (/\ t # u
           /\ Refreshing(tasks[t]) /\ Refreshing(tasks[u])
           /\ tasks[t].email = tasks[u].email
           /\ tasks[t].read = tasks[u].read)
            => /\ tasks[t].calls = 1 /\ tasks[u].calls = 1
               /\ tasks[t].req # tasks[u].req
               /\ tokenCalls >= 2)
  /\ [][\A t \in CallSlots :
          (/\ Refreshing(tasks[t])
           /\ tasks[t].pc = "refresh" /\ tasks'[t].pc = "audit"
           /\ epic_tokens[tasks[t].email] # NoRow)
            => /\ epic_tokens'[tasks[t].email].access_token
                    = tasks'[t].row.access_token
               /\ epic_tokens'[tasks[t].email].expires_at
                    = tasks'[t].row.expires_at]_vars
  /\ [][\A t \in CallSlots :
          (/\ Refreshing(tasks[t]) /\ tasks[t].fn = "none"
           /\ tasks[t].pc = "audit" /\ tasks'[t] # tasks[t])
            => /\ tasks'[t].result = "token"
               /\ tasks'[t].token = decrypt(tasks[t].row.access_token,
                                            ENCRYPTION_KEY)]_vars

C23_Witness ==
  \E t, u \in CallSlots :
    /\ t # u
    /\ Refreshing(tasks[t]) /\ Refreshing(tasks[u])
    /\ tasks[t].email = Doctor /\ tasks[u].email = Doctor
    /\ tasks[t].read = tasks[u].read
    /\ tasks[t].pc = "audit" /\ tasks[u].pc = "audit"
    /\ tasks[t].writes = 1 /\ tasks[u].writes = 1
    /\ tasks[t].req < tasks[u].req
    /\ tokenCalls = 2
    /\ epic_tokens[Doctor].access_token = tasks[t].row.access_token
    /\ epic_tokens[Doctor].access_token # tasks[u].row.access_token
    /\ epic_tokens[Doctor].expires_at < tasks[u].row.expires_at

\* C30: a disconnect between the read and the update of a refresh.  A
\* record that is gone comes into being again only through the upsert of a
\* callback (or of a demo connection) for that principal, never through the
\* update of a refresh; and a refresh whose update finds the record deleted
\* does not go on to return the access token.
C30_DisconnectDuringRefresh ==
  /\ [][\A q \in Principals :
          epic_tokens[q] = NoRow /\ epic_tokens'[q] # NoRow
            => \E t \in TaskIds :
                 /\ tasks'[t] # tasks[t]
                 /\ tasks'[t].op \in {"handleEpicCallback", "createDemoConnection"}
                 /\ tasks'[t].email = q
                 /\ tasks'[t].writes = 1]_vars
  /\ [][\A t \in CallSlots :
          (/\ Refreshing(tasks[t])
           /\ tasks[t].pc = "refresh"
           /\ epic_tokens[tasks[t].email] = NoRow)
            => /\ tasks'[t].pc # "audit"
               /\ tasks'[t].result # "token"]_vars

\* The event that tells of the store change a call makes.
ChangeEvent(task) ==
  CASE task.op = "createDemoConnection" -> "demo_connection_created"
    [] task.op = "handleEpicCallback" -> "epic_oauth_connected"
    [] task.op = "getEpicToken" -> "epic_token_refreshed"
    [] task.op = "disconnectEpic" -> "epic_disconnected"
    [] task.op = "fetchPatientData" -> fetchedAction(task.demo)
    [] OTHER -> NULL

ChangeEvents == {"demo_connection_created", "epic_oauth_connected",
                 "epic_token_refreshed", "epic_disconnected",
                 "demo_patient_data_fetched", "plasma_patient_data_fetched"}

\* The store has answered the request of the call without an error (as it
\* also answers an update or a delete that matches no row).
Changed(task) ==
  IF task.op = "fetchPatientData"
    THEN task.stored # NoSnapshot
    ELSE task.writes >= 1

\* C28: logAuditEvent is called with an event that tells of a store change
\* only by the call that made the change, after the store has answered its
\* request without an error; a call whose request failed has logged no such
\* event, and the step in which it fails leaves epic_audit_log as it is.
C28_AuditAfterChange ==
  /\ [](\A t \in TaskIds :
          tasks[t].result \in {"StoreError", "DisconnectError", "swallowed"}
            => \A i \in 1..Len(tasks[t].emitted) :
                 tasks[t].emitted[i] # ChangeEvent(tasks[t]))
  /\ [][/\ \A t \in TaskIds :
            (/\ tasks'[t].op # "none"
             /\ Len(tasks'[t].emitted) = Len(tasks[t].emitted) + 1
             /\ tasks'[t].emitted[Len(tasks'[t].emitted)] \in ChangeEvents)
              => /\ tasks[t].pc = "audit"
                 /\ tasks'[t].emitted[Len(tasks'[t].emitted)] = ChangeEvent(tasks[t])
                 /\ Changed(tasks[t])
        /\ \A t \in TaskIds :
            (/\ tasks'[t].result \in {"StoreError", "DisconnectError", "swallowed"}
             /\ tasks'[t] # tasks[t])
              => epic_audit_log' = epic_audit_log
        /\ (/\ Len(epic_audit_log') = Len(epic_audit_log) + 1
            /\ epic_audit_log'[Len(epic_audit_log')].event.action \in ChangeEvents)
              => \E t \in TaskIds :
                   /\ tasks[t].pc = "audit"
                   /\ Changed(tasks[t])
                   /\ epic_audit_log'[Len(epic_audit_log')].event.action
                        = ChangeEvent(tasks[t])
                   /\ epic_audit_log'[Len(epic_audit_log')].event.doctor_email
                        = tasks[t].email]_vars

C28_Witness ==
  \E t \in TaskIds :
    /\ tasks[t].op = "fetchPatientData"
    /\ tasks[t].result = "StoreError"
    /\ tasks[t].emitted = <<"epic_token_refreshed">>
    /\ epic_tokens[tasks[t].email].access_token = tasks[t].row.access_token
    /\ epic_patient_data[<<tasks[t].email, tasks[t].epicPatientId>>] = NoSnapshot
    /\ Len(epic_audit_log) > 0
    /\ epic_audit_log[Len(epic_audit_log)].event =
         AuditEvent(tasks[t].email, "epic_token_refreshed")

\* C29: a state is good for one successful handleEpicCallback and only while
\* it is the one last generated.  sessionStorage holds no state or the last
\* one generated; initEpicAuth replaces what is stored by a state never
\* generated before; the successful end of handleEpicCallback removes it;
\* and a handleEpicCallback whose state is not the stored one (the state of
\* an earlier initEpicAuth, or the one a success has used up) ends with the
\* CSRF error without a request to the token endpoint.
C29_StateSingleUse ==
  /\ [](sessionStorage.epic_oauth_state \in {0, issued})
  /\ [][/\ sessionStorage'.epic_oauth_state # sessionStorage.epic_oauth_state
             => \/ /\ sessionStorage'.epic_oauth_state > issued
                   /\ issued' = sessionStorage'.epic_oauth_state
                   /\ flow' = "AwaitingRedirect"
                \/ /\ sessionStorage'.epic_oauth_state = 0
                   /\ \E t \in TaskIds :
                        /\ tasks[t].op = "handleEpicCallback"
                        /\ tasks'[t].result = "success"
        /\ \A t \in TaskIds :
             tasks[t].op = "handleEpicCallback" /\ tasks'[t].result = "success"
               => sessionStorage'.epic_oauth_state = 0
        /\ \A t \in TaskIds :
             (/\ tasks[t].op # "handleEpicCallback"
              /\ tasks'[t].op = "handleEpicCallback"
              /\ tasks'[t].state # sessionStorage.epic_oauth_state)
               => /\ tasks'[t].pc = "done"
                  /\ tasks'[t].result = "CsrfError"
                  /\ Untouched(tasks'[t])
                  /\ tokenCalls' = tokenCalls
                  /\ epic_tokens' = epic_tokens]_vars

C29_Witness ==
  \E t \in Callbacks :
    /\ tasks[t].afterOk
    /\ tasks[t].state = issued
    /\ tasks[t].saved = 0
    /\ tasks[t].result = "CsrfError"
    /\ tokenCalls = 1
    /\ epic_tokens[Doctor] # NoRow

====
